---------------------------- MODULE Spec2Model ----------------------------
(* A model of azul's CSS styling code (src/azul/src/css.rs): the selector   *)
(* group iterator, the selector matcher, the stylesheet operations and the  *)
(* cascade over the DOM tree.                                               *)
EXTENDS Naturals, Integers, Sequences, FiniteSets, TLC

VARIABLES
    \* ---- one call of CssPath::matches_html_element
    selectors,          \* self.selectors : the CSS path
    node_id,            \* the node the path is matched against
    node_hierarchy,     \* NodeHierarchy : node -> [parent], 0 is None
    html_node_tree,     \* NodeDataContainer<HtmlCascadeInfo> : node -> facts
    pc,                 \* "call" before the call, "done" after it returned
    ret,                \* the value returned ("true", "false") or "panic"
    \* ---- the stylesheet and the operations on it
    css,                \* the Css: [rules, needs_relayout]
    op,                 \* the operation that produced css
    pre,                \* the Css the operation was called on (self before the call)
    arg,                \* the Css passed to merge (other)
    \* ---- one comparison of two paths by specificity
    cmp_paths,          \* the two CssPaths compared
    cmp_result,         \* their specificities and the Ordering of the two
    \* ---- one cascade pass, match_dom_css_selectors(ui_state, css)
    arena,              \* ui_state.dom.arena: [node_layout, node_data]
    non_leaf_nodes,     \* the parents to visit, in the order they are visited
    html_tree,          \* the facts construct_html_cascade_tree built
    styled_nodes,       \* BTreeMap<NodeId, declaration list>, a function on its keys
    visited,            \* the number of parents the loop has visited
    cascade_pc,         \* "start" before the loop, "loop" in it, "done" after the return
    returned,           \* what the passes so far returned, one entry for each frame
    \* ---- one call of determine_static_or_dynamic_css_property(key, value)
    key,                \* the key, a string (a sequence of characters)
    value,              \* the value, a string
    classified,         \* the Result the call returned
    \* ---- one call of CssPathPseudoSelector::from_str(data)
    data,               \* the text after the colon, a string
    parsed,             \* the Result the call returned
    \* ---- one CssGroupIterator driven by repeated calls of next()
    iter_path,          \* the css_path the iterator borrows
    iter,               \* the iterator: [current_idx, last_reason]
    yielded,            \* the pairs the calls returned so far, in order
    nones               \* the number of calls that returned None

matchVars == <<selectors, node_id, node_hierarchy, html_node_tree, pc, ret>>
cssVars == <<css, op, pre, arg>>
cmpVars == <<cmp_paths, cmp_result>>
cascadeVars ==
    <<arena, non_leaf_nodes, html_tree, styled_nodes, visited, cascade_pc, returned>>
classifyVars == <<key, value, classified>>
pseudoVars == <<data, parsed>>
iterVars == <<iter_path, iter, yielded, nones>>

vars == <<matchVars, cssVars, cmpVars, cascadeVars, classifyVars, pseudoVars, iterVars>>

-----------------------------------------------------------------------------
(* Bounds of the model.                                                     *)

\* longest selector path drawn as an input of the matcher
MaxPathLen == 3
\* deepest ancestor chain drawn as an input of the matcher
MaxDepth == 3
\* most rules a stylesheet holds after a merge
MaxRules == 3
\* most rule blocks in a text given to new_from_str
MaxParsed == 2
\* longest selector path drawn as an input of get_specificity
MaxCmpPathLen == 2
\* most nodes of a DOM tree given to the cascade
MaxNodes == 4
\* most rules of a stylesheet given to the cascade
MaxSheetRules == 2
\* most nodes of a DOM tree styled frame after frame
MaxFrameNodes == 3
\* most frames a tree is styled for
MaxFrames == 2
\* most pieces of a value given to the classifier, between its start and end
MaxValueTokens == 3
\* most pieces of a text given to the pseudo-selector parser
MaxDataTokens == 5
\* longest css_path matched against a chain of ancestors
MaxWalkPathLen == 5
\* longest chain of ancestors such a path is matched against, target included
MaxWalkDepth == 3
\* longest css_path a driven CssGroupIterator walks
MaxIterPathLen == 4
\* most calls of next() made after the iterator returned None
MaxNones == 2

-----------------------------------------------------------------------------
(* CssPathSelector and CssPathPseudoSelector (the pseudo selectors are      *)
(* flattened into the selector's kind; n is the argument of NthChild).      *)

Sel(kind, name, n) == [kind |-> kind, name |-> name, n |-> n]

Global == Sel("Global", "", 0)
Type(t) == Sel("Type", t, 0)
Class(c) == Sel("Class", c, 0)
Id(i) == Sel("Id", i, 0)
First == Sel("First", "", 0)
Last == Sel("Last", "", 0)
NthChild(x) == Sel("NthChild", "", x)
Hover == Sel("Hover", "", 0)
Active == Sel("Active", "", 0)
Focus == Sel("Focus", "", 0)
DirectChildren == Sel("DirectChildren", "", 0)
Children == Sel("Children", "", 0)

\* Option<NodeId>::None
None == 0

\* HtmlCascadeInfo, with the fields of node_data that the matcher reads
HtmlCascadeInfo(node_type, classes, ids, index_in_parent, is_last_child) ==
    [node_data |-> [node_type |-> node_type, classes |-> classes, ids |-> ids],
     index_in_parent |-> index_in_parent,
     is_last_child |-> is_last_child,
     is_hovered_over |-> FALSE,
     is_active |-> FALSE,
     is_focused |-> FALSE]

-----------------------------------------------------------------------------
(* CssGroupIterator                                                         *)

\* the pushed selectors left in the order of the scan
LeftAsScanned(s) == s

Reverse(s) == [i \in 1..Len(s) |-> s[Len(s) + 1 - i]]

\* an iterator that starts with the other reason
CssGroupIterator_new_direct(css_path) ==
    [current_idx |-> Len(css_path), last_reason |-> "DirectChildren"]

CssGroupIterator_new(css_path) ==
    [current_idx |-> Len(css_path), last_reason |-> "Children"]

\* the same loop with the break taken after the push: the combinator leaks
\* into the content group
RECURSIVE ScanGroupPushesCombinator(_, _, _, _)
ScanGroupPushesCombinator(css_path, new_idx, current_path, last_reason) ==
    IF new_idx = 0
    THEN [new_idx |-> new_idx, current_path |-> current_path, last_reason |-> last_reason]
    ELSE LET s == css_path[new_idx]
         IN  IF s.kind \in {"Children", "DirectChildren"}
             THEN [new_idx |-> new_idx, current_path |-> Append(current_path, s),
                   last_reason |-> s.kind]
             ELSE ScanGroupPushesCombinator(css_path, new_idx - 1,
                                            Append(current_path, s), last_reason)

\* the while loop of next(): scans from new_idx toward the start of the path,
\* pushing atomic selectors, and stops at a combinator, which it records
RECURSIVE ScanGroup(_, _, _, _)
ScanGroup(css_path, new_idx, current_path, last_reason) ==
    IF new_idx = 0
    THEN [new_idx |-> new_idx, current_path |-> current_path, last_reason |-> last_reason]
    ELSE LET s == css_path[new_idx]
         IN  IF s.kind = "Children"
             THEN [new_idx |-> new_idx, current_path |-> current_path,
                   last_reason |-> "Children"]
             ELSE IF s.kind = "DirectChildren"
             THEN [new_idx |-> new_idx, current_path |-> current_path,
                   last_reason |-> "DirectChildren"]
             ELSE ScanGroup(css_path, new_idx - 1, Append(current_path, s), last_reason)

\* next() yielding the group with the reason the iterator held before the scan
CssGroupIterator_next_earlier_reason(css_path, it) ==
    IF it.current_idx = 0
    THEN [some |-> FALSE, group |-> <<>>, reason |-> it.last_reason, it |-> it]
    ELSE LET r == ScanGroup(css_path, it.current_idx, <<>>, it.last_reason)
             current_path == Reverse(r.current_path)
         IN  IF r.new_idx = 0
             THEN IF current_path = <<>>
                  THEN [some |-> FALSE, group |-> <<>>, reason |-> it.last_reason,
                        it |-> [current_idx |-> it.current_idx,
                                last_reason |-> r.last_reason]]
                  ELSE [some |-> TRUE, group |-> current_path, reason |-> it.last_reason,
                        it |-> [current_idx |-> 0, last_reason |-> r.last_reason]]
             ELSE [some |-> TRUE, group |-> current_path, reason |-> it.last_reason,
                   it |-> [current_idx |-> r.new_idx - 1,
                           last_reason |-> r.last_reason]]

\* Iterator::next: some = FALSE is None; it is the iterator after the call
CssGroupIterator_next(css_path, it) ==
    IF it.current_idx = 0
    THEN [some |-> FALSE, group |-> <<>>, reason |-> it.last_reason, it |-> it]
    ELSE LET r == ScanGroup(css_path, it.current_idx, <<>>, it.last_reason)
             current_path == Reverse(r.current_path)
         IN  IF r.new_idx = 0
             THEN IF current_path = <<>>
                  THEN [some |-> FALSE, group |-> <<>>, reason |-> r.last_reason,
                        it |-> [current_idx |-> it.current_idx,
                                last_reason |-> r.last_reason]]
                  ELSE [some |-> TRUE, group |-> current_path, reason |-> r.last_reason,
                        it |-> [current_idx |-> 0, last_reason |-> r.last_reason]]
             ELSE [some |-> TRUE, group |-> current_path, reason |-> r.last_reason,
                   it |-> [current_idx |-> r.new_idx - 1,
                           last_reason |-> r.last_reason]]

\* every (group, reason) pair the iterator yields until it returns None
RECURSIVE IterCollect(_, _)
IterCollect(css_path, it) ==
    LET n == CssGroupIterator_next(css_path, it)
    IN  IF n.some
        THEN <<[group |-> n.group, reason |-> n.reason]>> \o IterCollect(css_path, n.it)
        ELSE <<>>

-----------------------------------------------------------------------------
(* selector_group_matches                                                   *)

Bool(b) == IF b THEN "true" ELSE "false"

\* one arm of the match: TRUE when the arm does not return false
SelectorArmPasses(selector, html_node) ==
    CASE selector.kind = "Global" -> TRUE
      [] selector.kind = "Type" -> html_node.node_data.node_type = selector.name
      [] selector.kind = "Class" -> selector.name \in html_node.node_data.classes
      [] selector.kind = "Id" -> selector.name \in html_node.node_data.ids
      [] selector.kind = "First" -> html_node.index_in_parent = 1
      [] selector.kind = "Last" -> html_node.is_last_child
      [] selector.kind = "NthChild" -> html_node.index_in_parent = selector.n
      [] selector.kind = "Hover" -> html_node.is_hovered_over
      [] selector.kind = "Active" -> html_node.is_active
      [] selector.kind = "Focus" -> html_node.is_focused

\* the for loop: the first selector that fails returns false, a combinator panics
RECURSIVE GroupLoop(_, _, _)
GroupLoop(group, i, html_node) ==
    IF i > Len(group) THEN "true"
    ELSE IF group[i].kind \in {"DirectChildren", "Children"} THEN "panic"
    ELSE IF ~SelectorArmPasses(group[i], html_node) THEN "false"
    ELSE GroupLoop(group, i + 1, html_node)

\* the loop returning true at the first selector that passes (OR semantics)
RECURSIVE GroupLoopAny(_, _, _)
GroupLoopAny(group, i, html_node) ==
    IF i > Len(group) THEN Bool(group = <<>>)
    ELSE IF group[i].kind \in {"DirectChildren", "Children"} THEN "panic"
    ELSE IF SelectorArmPasses(group[i], html_node) THEN "true"
    ELSE GroupLoopAny(group, i + 1, html_node)

selector_group_matches_any(group, html_node) == GroupLoopAny(group, 1, html_node)

selector_group_matches(group, html_node) == GroupLoop(group, 1, html_node)

-----------------------------------------------------------------------------
(* CssPath::matches_html_element                                            *)

\* the loop returning at the first group that fails, whatever the combinator
RECURSIVE MatchLoopAllGroups(_, _, _, _, _, _, _)
MatchLoopAllGroups(css_path, it, current_node, direct_parent_has_to_match, last_selector_matched, hierarchy, tree) ==
    LET n == CssGroupIterator_next(css_path, it)
    IN  IF ~n.some THEN Bool(last_selector_matched)
        ELSE IF current_node = None THEN Bool(n.group = <<Global>>)
        ELSE LET current_selector_matches ==
                     selector_group_matches(n.group, tree[current_node])
             IN  IF current_selector_matches = "panic" THEN "panic"
                 ELSE IF TRUE /\ current_selector_matches = "false"
                 THEN "false"
                 ELSE MatchLoopAllGroups(css_path, n.it, hierarchy[current_node].parent,
                                n.reason = "DirectChildren",
                                current_selector_matches = "true", hierarchy, tree)

\* the loop with direct_parent_has_to_match never set
RECURSIVE MatchLoopNoDirectParent(_, _, _, _, _, _, _)
MatchLoopNoDirectParent(css_path, it, current_node, direct_parent_has_to_match, last_selector_matched, hierarchy, tree) ==
    LET n == CssGroupIterator_next(css_path, it)
    IN  IF ~n.some THEN Bool(last_selector_matched)
        ELSE IF current_node = None THEN Bool(n.group = <<Global>>)
        ELSE LET current_selector_matches ==
                     selector_group_matches(n.group, tree[current_node])
             IN  IF current_selector_matches = "panic" THEN "panic"
                 ELSE IF direct_parent_has_to_match /\ current_selector_matches = "false"
                 THEN "false"
                 ELSE MatchLoopNoDirectParent(css_path, n.it, hierarchy[current_node].parent,
                                FALSE,
                                current_selector_matches = "true", hierarchy, tree)

\* the loop with current_node not advanced to the parent
RECURSIVE MatchLoopStaysOnNode(_, _, _, _, _, _, _)
MatchLoopStaysOnNode(css_path, it, current_node, direct_parent_has_to_match, last_selector_matched, hierarchy, tree) ==
    LET n == CssGroupIterator_next(css_path, it)
    IN  IF ~n.some THEN Bool(last_selector_matched)
        ELSE IF current_node = None THEN Bool(n.group = <<Global>>)
        ELSE LET current_selector_matches ==
                     selector_group_matches(n.group, tree[current_node])
             IN  IF current_selector_matches = "panic" THEN "panic"
                 ELSE IF direct_parent_has_to_match /\ current_selector_matches = "false"
                 THEN "false"
                 ELSE MatchLoopStaysOnNode(css_path, n.it, current_node,
                                n.reason = "DirectChildren",
                                current_selector_matches = "true", hierarchy, tree)

\* the loop returning the last result when no parent is left
RECURSIVE MatchLoopIgnoresMissingParent(_, _, _, _, _, _, _)
MatchLoopIgnoresMissingParent(css_path, it, current_node, direct_parent_has_to_match, last_selector_matched, hierarchy, tree) ==
    LET n == CssGroupIterator_next(css_path, it)
    IN  IF ~n.some THEN Bool(last_selector_matched)
        ELSE IF current_node = None THEN Bool(last_selector_matched)
        ELSE LET current_selector_matches ==
                     selector_group_matches(n.group, tree[current_node])
             IN  IF current_selector_matches = "panic" THEN "panic"
                 ELSE IF direct_parent_has_to_match /\ current_selector_matches = "false"
                 THEN "false"
                 ELSE MatchLoopIgnoresMissingParent(css_path, n.it, hierarchy[current_node].parent,
                                n.reason = "DirectChildren",
                                current_selector_matches = "true", hierarchy, tree)

\* the for loop over the group iterator
RECURSIVE MatchLoop(_, _, _, _, _, _, _)
MatchLoop(css_path, it, current_node, direct_parent_has_to_match, last_selector_matched, hierarchy, tree) ==
    LET n == CssGroupIterator_next(css_path, it)
    IN  IF ~n.some THEN Bool(last_selector_matched)
        ELSE IF current_node = None THEN Bool(n.group = <<Global>>)
        ELSE LET current_selector_matches ==
                     selector_group_matches(n.group, tree[current_node])
             IN  IF current_selector_matches = "panic" THEN "panic"
                 ELSE IF direct_parent_has_to_match /\ current_selector_matches = "false"
                 THEN "false"
                 ELSE MatchLoop(css_path, n.it, hierarchy[current_node].parent,
                                n.reason = "DirectChildren",
                                current_selector_matches = "true", hierarchy, tree)

matches_html_element(css_path, node, hierarchy, tree) ==
    IF css_path = <<>> THEN "false"
    ELSE MatchLoop(css_path, CssGroupIterator_new(css_path), node, FALSE, FALSE,
                   hierarchy, tree)

-----------------------------------------------------------------------------
(* CssDeclaration, CssRuleBlock and Css                                     *)

\* CssDeclaration::Static(ParsedCssProperty)
Static(property) == [kind |-> "Static", dynamic_id |-> "", value |-> property]
\* CssDeclaration::Dynamic(DynamicCssProperty { dynamic_id, default }); the
\* default is "auto" (Auto) or a property (Exact)
Dynamic(dynamic_id, default) ==
    [kind |-> "Dynamic", dynamic_id |-> dynamic_id, value |-> default]

\* the properties of the model; the last two are the inheritable ones
Properties == {"red", "blue", "black", "font"}

\* ParsedCssProperty::is_inheritable: a fixed fact of the property
ParsedCssProperty_is_inheritable(property) == property \in {"black", "font"}

\* DynamicCssProperty::is_inheritable inheriting what its default inherits
DynamicCssProperty_is_inheritable_as_default(d) ==
    d.value # "auto" /\ ParsedCssProperty_is_inheritable(d.value)

DynamicCssProperty_is_inheritable(d) == FALSE

CssDeclaration_is_inheritable(d) ==
    IF d.kind = "Static"
    THEN ParsedCssProperty_is_inheritable(d.value)
    ELSE DynamicCssProperty_is_inheritable(d)

CssRuleBlock(path, declarations) == [path |-> path, declarations |-> declarations]

\* get_specificity with the id and the class count swapped
get_specificity_class_first(path) ==
    <<Len(SelectSeq(path, LAMBDA x : x.kind = "Class")),
      Len(SelectSeq(path, LAMBDA x : x.kind = "Id")),
      Len(SelectSeq(path, LAMBDA x : x.kind = "Type"))>>

get_specificity(path) ==
    <<Len(SelectSeq(path, LAMBDA x : x.kind = "Id")),
      Len(SelectSeq(path, LAMBDA x : x.kind = "Class")),
      Len(SelectSeq(path, LAMBDA x : x.kind = "Type"))>>

\* Ord::cmp of two (usize, usize, usize): the first component that differs decides
RECURSIVE TupleCmp(_, _, _)
TupleCmp(a, b, i) ==
    IF i > Len(a) THEN "Equal"
    ELSE IF a[i] < b[i] THEN "Less"
    ELSE IF a[i] > b[i] THEN "Greater"
    ELSE TupleCmp(a, b, i + 1)

\* the closure handed to sort_by
SpecificityCmp(a, b) == TupleCmp(get_specificity(a.path), get_specificity(b.path), 1)

\* how far the head of v moves: past the leading elements of the sorted tail
\* that are strictly less than it
RECURSIVE HoleOf(_, _, _)
HoleOf(head, tail, i) ==
    IF i <= Len(tail) /\ SpecificityCmp(tail[i], head) = "Less"
    THEN HoleOf(head, tail, i + 1)
    ELSE i - 1

\* the same, moving the head also past the elements equal to it
RECURSIVE HoleOfPastEqual(_, _, _)
HoleOfPastEqual(head, tail, i) ==
    IF i <= Len(tail) /\ SpecificityCmp(tail[i], head) # "Greater"
    THEN HoleOfPastEqual(head, tail, i + 1)
    ELSE i - 1

\* slice::sort_by on a short slice: an insertion sort from the back, each
\* element inserted at the head of the sorted rest
InsertHeadAt(v, k) ==
    SubSeq(Tail(v), 1, k) \o <<Head(v)>> \o SubSeq(Tail(v), k + 1, Len(v) - 1)

InsertHeadUnstable(v) == InsertHeadAt(v, HoleOfPastEqual(Head(v), Tail(v), 1))

InsertHead(v) == InsertHeadAt(v, HoleOf(Head(v), Tail(v), 1))

RECURSIVE SortBy(_)
SortBy(v) ==
    IF Len(v) <= 1 THEN v
    ELSE InsertHead(<<Head(v)>> \o SortBy(Tail(v)))

\* #[derive(Default)]: no rules, and the bool's default
Css_default == [rules |-> <<>>, needs_relayout |-> FALSE]

\* Css::new_from_str, as its tests show it: the rules sorted by specificity,
\* needs_relayout set
Css_new_from_str(rules) == [rules |-> SortBy(rules), needs_relayout |-> TRUE]

Css_sort_by_specificity(self) == [self EXCEPT !.rules = SortBy(self.rules)]

\* merge taking the flag of other
Css_merge_takes_flag(self, other) ==
    [rules |-> self.rules \o other.rules, needs_relayout |-> other.needs_relayout]

Css_merge(self, other) ==
    [rules |-> self.rules \o other.rules,
     needs_relayout |-> self.needs_relayout \/ other.needs_relayout]

-----------------------------------------------------------------------------
(* The DOM tree: NodeHierarchy and its iterators (id_tree).                 *)

\* id_tree::Node
Node(parent, previous_sibling, next_sibling, first_child, last_child) ==
    [parent |-> parent, previous_sibling |-> previous_sibling,
     next_sibling |-> next_sibling, first_child |-> first_child,
     last_child |-> last_child]

\* NodeId::children: the first child, then every next sibling
RECURSIVE SiblingsFrom(_, _)
SiblingsFrom(node_layout, c) ==
    IF c = None THEN <<>>
    ELSE <<c>> \o SiblingsFrom(node_layout, node_layout[c].next_sibling)

children(node_layout, parent_id) ==
    SiblingsFrom(node_layout, node_layout[parent_id].first_child)

\* NodeId::preceding_siblings: the node itself, then every previous sibling
RECURSIVE preceding_siblings(_, _)
preceding_siblings(node_layout, c) ==
    IF c = None THEN <<>>
    ELSE <<c>> \o preceding_siblings(node_layout, node_layout[c].previous_sibling)

\* the depth of a node, 0 for the root
RECURSIVE DepthOf(_, _)
DepthOf(node_layout, n) ==
    IF node_layout[n].parent = None THEN 0
    ELSE 1 + DepthOf(node_layout, node_layout[n].parent)

\* ui_solver::get_non_leaf_nodes_sorted_by_depth: the orders it may return,
\* every node with a child, ascending by depth
get_non_leaf_nodes_sorted_by_depth(node_layout) ==
    LET parents == {n \in DOMAIN node_layout : node_layout[n].first_child # None}
    IN  {order \in [1..Cardinality(parents) -> parents] :
            /\ \A i, j \in DOMAIN order : order[i] = order[j] => i = j
            /\ \A i, j \in DOMAIN order :
                  i < j => DepthOf(node_layout, order[i]) <= DepthOf(node_layout, order[j])}

-----------------------------------------------------------------------------
(* construct_html_cascade_tree                                              *)

\* the facts of one node (the three interaction flags are false: TODO in the code)
CascadeInfo(node_data, index_in_parent, is_last_child) ==
    [node_data |-> node_data,
     index_in_parent |-> index_in_parent,
     is_last_child |-> is_last_child,
     is_hovered_over |-> FALSE,
     is_active |-> FALSE,
     is_focused |-> FALSE]

\* the inner loop counting the children from 0
RECURSIVE SetChildrenFromZero(_, _, _, _, _)
SetChildrenFromZero(nodes, input, hierarchy, kids, child_idx) ==
    IF child_idx >= Len(kids) THEN nodes
    ELSE LET child_id == kids[child_idx + 1]
         IN  SetChildrenFromZero(
                 [nodes EXCEPT ![child_id] =
                     CascadeInfo(input[child_id], child_idx,
                                 hierarchy[child_id].next_sibling = None)],
                 input, hierarchy, kids, child_idx + 1)

\* the inner for loop: the facts of the children of one parent
RECURSIVE SetChildren(_, _, _, _, _)
SetChildren(nodes, input, hierarchy, kids, child_idx) ==
    IF child_idx >= Len(kids) THEN nodes
    ELSE LET child_id == kids[child_idx + 1]
         IN  SetChildren(
                 [nodes EXCEPT ![child_id] =
                     CascadeInfo(input[child_id], child_idx + 1,
                                 hierarchy[child_id].next_sibling = None)],
                 input, hierarchy, kids, child_idx + 1)

\* the outer for loop over node_depths_sorted
RECURSIVE SetParents(_, _, _, _, _)
SetParents(nodes, input, hierarchy, node_depths_sorted, i) ==
    IF i > Len(node_depths_sorted) THEN nodes
    ELSE LET parent_id == node_depths_sorted[i]
             index_in_parent == Len(preceding_siblings(hierarchy, parent_id))
             with_parent ==
                 [nodes EXCEPT ![parent_id] =
                     CascadeInfo(input[parent_id], index_in_parent,
                                 hierarchy[parent_id].next_sibling = None)]
         IN  SetParents(
                 SetChildren(with_parent, input, hierarchy,
                             children(hierarchy, parent_id), 0),
                 input, hierarchy, node_depths_sorted, i + 1)

construct_html_cascade_tree(input, hierarchy, node_depths_sorted) ==
    SetParents([n \in DOMAIN hierarchy |-> CascadeInfo(input[1], 0, FALSE)],
               input, hierarchy, node_depths_sorted, 1)

-----------------------------------------------------------------------------
(* match_dom_css_selectors                                                  *)

\* the loop with the declarations of a matching rule put in front of the list
RECURSIVE PrependApplyingRules(_, _, _, _, _, _)
PrependApplyingRules(list, rules, i, id, node_layout, tree) ==
    IF i > Len(rules) THEN list
    ELSE PrependApplyingRules(
             IF matches_html_element(rules[i].path, id, node_layout, tree) = "true"
             THEN rules[i].declarations \o list
             ELSE list,
             rules, i + 1, id, node_layout, tree)

\* list.extend(applying_rule.declarations.clone()) for every rule of the
\* stylesheet, in its order, whose path matches the node
RECURSIVE ExtendWithApplyingRules(_, _, _, _, _, _)
ExtendWithApplyingRules(list, rules, i, id, node_layout, tree) ==
    IF i > Len(rules) THEN list
    ELSE ExtendWithApplyingRules(
             IF matches_html_element(rules[i].path, id, node_layout, tree) = "true"
             THEN list \o rules[i].declarations
             ELSE list,
             rules, i + 1, id, node_layout, tree)

\* a map that still holds what the pass before put into it
BTreeMap_kept == styled_nodes

\* BTreeMap::<NodeId, StyledNode>::new()
BTreeMap_new == <<>>

\* the UiDescription a pass returns, and the stylesheet as the caller finds it
\* after the pass
UiDescription(ui_descr_arena, styled, stylesheet) ==
    [ui_descr_arena |-> ui_descr_arena, styled_nodes |-> styled, css |-> stylesheet]

\* the children given every declaration of the parent
InheritAll(list) == list

\* parent_rules...iter().filter(|prop| prop.is_inheritable()).cloned().collect()
InheritableRules(list) == SelectSeq(list, CssDeclaration_is_inheritable)

\* BTreeMap::insert
Insert(map, k, v) ==
    [n \in DOMAIN map \cup {k} |-> IF n = k THEN v ELSE map[n]]

\* the for loop over the children of one parent
RECURSIVE StyleChildren(_, _, _, _, _, _, _)
StyleChildren(styled, kids, i, inheritable_rules, rules, node_layout, tree) ==
    IF i > Len(kids) THEN styled
    ELSE LET child_id == kids[i]
             child_rules ==
                 IF node_layout[child_id].first_child = None
                 THEN ExtendWithApplyingRules(inheritable_rules, rules, 1, child_id,
                                              node_layout, tree)
                 ELSE inheritable_rules
         IN  StyleChildren(Insert(styled, child_id, child_rules), kids, i + 1,
                           inheritable_rules, rules, node_layout, tree)

\* the iteration without the insert of the parent's own list
StyleParentChildrenOnly(styled, parent_id, rules, node_layout, tree) ==
    LET start == IF parent_id \in DOMAIN styled THEN styled[parent_id] ELSE <<>>
        parent_rules ==
            ExtendWithApplyingRules(start, rules, 1, parent_id, node_layout, tree)
        inheritable_rules == InheritableRules(parent_rules)
    IN  StyleChildren(styled, children(node_layout, parent_id), 1,
                      inheritable_rules, rules, node_layout, tree)

\* one iteration of the for loop over non_leaf_nodes
StyleParent(styled, parent_id, rules, node_layout, tree) ==
    LET start == IF parent_id \in DOMAIN styled THEN styled[parent_id] ELSE <<>>
        parent_rules ==
            ExtendWithApplyingRules(start, rules, 1, parent_id, node_layout, tree)
        inheritable_rules == InheritableRules(parent_rules)
        with_children ==
            StyleChildren(styled, children(node_layout, parent_id), 1,
                          inheritable_rules, rules, node_layout, tree)
    IN  Insert(with_children, parent_id, parent_rules)

-----------------------------------------------------------------------------
(* Strings: a &str is the sequence of its characters, and the methods of    *)
(* str the parsers call.                                                    *)

\* Result::Ok and Result::Err
Ok(v) == [tag |-> "Ok", v |-> v]
Err(e) == [tag |-> "Err", v |-> e]

\* char::is_whitespace and char::is_numeric, on the characters of the inputs
is_whitespace(c) == c = " "
is_numeric(c) == c \in {"0", "1", "2", "3", "4", "5", "6", "7", "8", "9"}

\* str::starts_with and str::ends_with
starts_with(s, pat) == Len(s) >= Len(pat) /\ SubSeq(s, 1, Len(pat)) = pat
ends_with(s, pat) == Len(s) >= Len(pat) /\ SubSeq(s, Len(s) - Len(pat) + 1, Len(s)) = pat

\* str::trim_left, str::trim_right and str::trim
RECURSIVE trim_left(_)
trim_left(s) ==
    IF s # <<>> /\ is_whitespace(Head(s)) THEN trim_left(Tail(s)) ELSE s

RECURSIVE trim_right(_)
trim_right(s) ==
    IF s # <<>> /\ is_whitespace(s[Len(s)])
    THEN trim_right(SubSeq(s, 1, Len(s) - 1))
    ELSE s

trim(s) == trim_right(trim_left(s))

\* str::trim_left_matches and str::trim_right_matches: the pattern is removed
\* as often as the string starts (ends) with it
RECURSIVE trim_left_matches(_, _)
trim_left_matches(s, pat) ==
    IF starts_with(s, pat)
    THEN trim_left_matches(SubSeq(s, Len(pat) + 1, Len(s)), pat)
    ELSE s

RECURSIVE trim_right_matches(_, _)
trim_right_matches(s, pat) ==
    IF ends_with(s, pat)
    THEN trim_right_matches(SubSeq(s, 1, Len(s) - Len(pat)), pat)
    ELSE s

\* str::find: the index of the first occurrence of pat in s, 0 if there is none
find(s, pat) ==
    LET at == {i \in 1..(Len(s) - Len(pat) + 1) : SubSeq(s, i, i + Len(pat) - 1) = pat}
    IN  IF at = {} THEN 0 ELSE CHOOSE i \in at : \A j \in at : i <= j

\* s.splitn(2, pat): the pieces before and after the first occurrence of pat,
\* or s alone
splitn_2(s, pat) ==
    LET k == find(s, pat)
    IN  IF k = 0 THEN <<s>>
        ELSE <<SubSeq(s, 1, k - 1), SubSeq(s, k + Len(pat), Len(s))>>

\* s.split(pat): every piece between the occurrences of pat
RECURSIVE split(_, _)
split(s, pat) ==
    LET k == find(s, pat)
    IN  IF k = 0 THEN <<s>>
        ELSE <<SubSeq(s, 1, k - 1)>> \o split(SubSeq(s, k + Len(pat), Len(s)), pat)

\* the value of a string of decimal digits
RECURSIVE DigitsValue(_)
DigitsValue(s) ==
    IF s = <<>> THEN 0
    ELSE 10 * DigitsValue(SubSeq(s, 1, Len(s) - 1))
         + (CHOOSE d \in 0..9 : <<"0", "1", "2", "3", "4", "5", "6", "7", "8", "9">>[d + 1] = s[Len(s)])

\* s.parse::<usize>(): digits only (the inputs drawn here have no sign and stay
\* far below usize::MAX)
parse_usize(s) ==
    IF s = <<>> THEN Err([error |-> "ParseIntError", source |-> <<"E", "m", "p", "t", "y">>])
    ELSE IF \E i \in DOMAIN s : ~is_numeric(s[i])
         THEN Err([error |-> "ParseIntError",
                   source |-> <<"I", "n", "v", "a", "l", "i", "d", "D", "i", "g", "i", "t">>])
         ELSE Ok(DigitsValue(s))

-----------------------------------------------------------------------------
(* determine_static_or_dynamic_css_property and parse_dynamic_css_property  *)

START_BRACE == <<"[", "[">>
END_BRACE == <<"]", "]">>

\* the words of the values
AUTO == <<"a", "u", "t", "o">>
CENTER == <<"c", "e", "n", "t", "e", "r">>
PX4 == <<"4", "p", "x">>
TEXT_ALIGN == <<"t", "e", "x", "t", "-", "a", "l", "i", "g", "n">>
WIDTH == <<"w", "i", "d", "t", "h">>

\* CssParsingError::InvalidValueErr(InvalidValueErr(value))
InvalidValueErr(text) == [error |-> "InvalidValueErr", source |-> text]

\* ParsedCssProperty::from_kv: the property a key and a value stand for
ParsedCssProperty_from_kv(k, v) ==
    IF k = TEXT_ALIGN /\ v = CENTER THEN Ok("TextAlign(Center)")
    ELSE IF k = WIDTH /\ v = PX4 THEN Ok("Width(4px)")
    ELSE Err(InvalidValueErr(v))

\* DynamicCssParseError
UnclosedBraces == [error |-> "UnclosedBraces", source |-> <<>>]
NoDefaultCase == [error |-> "NoDefaultCase", source |-> <<>>]
NoId == [error |-> "NoId", source |-> <<>>]
InvalidId == [error |-> "InvalidId", source |-> <<>>]
EmptyBraces == [error |-> "EmptyBraces", source |-> <<>>]
\* impl From<CssParsingError> for DynamicCssParseError
UnexpectedValue(e) == [error |-> "UnexpectedValue", source |-> e]

\* DynamicCssPropertyDefault
Auto == "auto"
Exact(property) == property

\* the arm for a value without a pipe, which returns in every case
NoPipeArmWithoutValueCheck(k, id) ==
    IF trim(id) = <<>> THEN Err(EmptyBraces)
    ELSE Err(NoDefaultCase)

NoPipeArm(k, id) ==
    IF trim(id) = <<>> THEN Err(EmptyBraces)
    ELSE IF ParsedCssProperty_from_kv(k, id).tag = "Ok" THEN Err(NoId)
    ELSE Err(NoDefaultCase)

\* the match on which of the two parts is empty, with two arms exchanged
EmptyPartArmsExchanged(dynamic_id, default_case) ==
    IF dynamic_id = <<>> /\ default_case = <<>> THEN Err(EmptyBraces)
    ELSE IF dynamic_id = <<>> THEN Err(NoDefaultCase)
    ELSE IF default_case = <<>> THEN Err(NoId)
    ELSE Ok(<<>>)

\* match (dynamic_id.is_empty(), default_case.is_empty())
EmptyPartArms(dynamic_id, default_case) ==
    IF dynamic_id = <<>> /\ default_case = <<>> THEN Err(EmptyBraces)
    ELSE IF dynamic_id = <<>> THEN Err(NoId)
    ELSE IF default_case = <<>> THEN Err(NoDefaultCase)
    ELSE Ok(<<>>)

\* the check of the identifier without the test that it is no property value
IdIsInvalidByNumeralOnly(k, dynamic_id) == is_numeric(Head(dynamic_id))

\* dynamic_id.starts_with(char::is_numeric) || from_kv(key, dynamic_id).is_ok()
IdIsInvalid(k, dynamic_id) ==
    \/ is_numeric(Head(dynamic_id))
    \/ ParsedCssProperty_from_kv(k, dynamic_id).tag = "Ok"

\* the default parsed as a property value whatever it is
DefaultCaseParsedWithoutAuto(k, default_case) ==
    LET parsed_value == ParsedCssProperty_from_kv(k, default_case)
    IN  IF parsed_value.tag = "Ok" THEN Ok(Exact(parsed_value.v))
        ELSE Err(UnexpectedValue(parsed_value.v))

\* match default_case { "auto" => Auto, other => Exact(from_kv(key, other)?) }
DefaultCaseParsed(k, default_case) ==
    IF default_case = AUTO THEN Ok(Auto)
    ELSE LET parsed_value == ParsedCssProperty_from_kv(k, default_case)
         IN  IF parsed_value.tag = "Ok" THEN Ok(Exact(parsed_value.v))
             ELSE Err(UnexpectedValue(parsed_value.v))

\* the two last steps in the other order: the default is parsed first
DefaultThenIdCheck(k, dynamic_id, default_case) ==
    LET default_case_parsed == DefaultCaseParsed(k, default_case)
    IN  IF default_case_parsed.tag = "Err" THEN default_case_parsed
        ELSE IF IdIsInvalid(k, dynamic_id) THEN Err(InvalidId)
        ELSE Ok([dynamic_id |-> dynamic_id, default |-> default_case_parsed.v])

\* the check of the identifier, then the default, then the DynamicCssProperty
IdCheckThenDefault(k, dynamic_id, default_case) ==
    IF IdIsInvalid(k, dynamic_id) THEN Err(InvalidId)
    ELSE LET default_case_parsed == DefaultCaseParsed(k, default_case)
         IN  IF default_case_parsed.tag = "Err" THEN default_case_parsed
             ELSE Ok([dynamic_id |-> dynamic_id, default |-> default_case_parsed.v])

\* let dynamic_id = dynamic_id.trim(); let default_case = default_case.trim();
PartsTrimmed(pipe_split) == <<trim(pipe_split[1]), trim(pipe_split[2])>>

parse_dynamic_css_property(k, v) ==
    LET stripped == trim(trim_right_matches(trim_left_matches(v, START_BRACE), END_BRACE))
        pipe_split == splitn_2(stripped, <<"|">>)
    IN  IF Len(pipe_split) = 1 THEN NoPipeArm(k, pipe_split[1])
        ELSE LET parts == PartsTrimmed(pipe_split)
                 empty_part == EmptyPartArms(parts[1], parts[2])
             IN  IF empty_part.tag = "Err" THEN empty_part
                 ELSE IdCheckThenDefault(k, parts[1], parts[2])

\* the classifier deciding by the opening delimiter alone
determine_by_the_start_alone(k0, v0) ==
    LET k == trim(k0)
        v == trim(v0)
    IN  IF starts_with(v, START_BRACE)
        THEN LET val == parse_dynamic_css_property(k, v)
             IN  IF val.tag = "Ok" THEN Ok(Dynamic(val.v.dynamic_id, val.v.default)) ELSE val
        ELSE LET property == ParsedCssProperty_from_kv(k, v)
             IN  IF property.tag = "Ok" THEN Ok(Static(property.v))
                 ELSE Err(UnexpectedValue(property.v))

determine_static_or_dynamic_css_property(k0, v0) ==
    LET k == trim(k0)
        v == trim(v0)
        is_starting_with_braces == starts_with(v, START_BRACE)
        is_ending_with_braces == ends_with(v, END_BRACE)
    IN  IF is_starting_with_braces # is_ending_with_braces THEN Err(UnclosedBraces)
        ELSE IF is_starting_with_braces
        THEN LET val == parse_dynamic_css_property(k, v)
             IN  IF val.tag = "Ok" THEN Ok(Dynamic(val.v.dynamic_id, val.v.default)) ELSE val
        ELSE LET property == ParsedCssProperty_from_kv(k, v)
             IN  IF property.tag = "Ok" THEN Ok(Static(property.v))
                 ELSE Err(UnexpectedValue(property.v))

-----------------------------------------------------------------------------
(* CssPathPseudoSelector::from_str                                          *)

\* the words of the pseudo selectors
FIRST == <<"f", "i", "r", "s", "t">>
LAST == <<"l", "a", "s", "t">>
HOVER == <<"h", "o", "v", "e", "r">>
ACTIVE == <<"a", "c", "t", "i", "v", "e">>
FOCUS == <<"f", "o", "c", "u", "s">>
NTH_CHILD == <<"n", "t", "h", "-", "c", "h", "i", "l", "d">>

\* CssPseudoSelectorParseError
UnknownSelector(text) == [error |-> "UnknownSelector", source |-> text]
InvalidNthChild(e) == [error |-> "InvalidNthChild", source |-> e]
UnclosedBracesNthChild(text) == [error |-> "UnclosedBracesNthChild", source |-> text]

\* nth_child_string.trim(); as a statement: the trimmed slice it returns is
\* dropped and nth_child_string is what it was
TrimDiscarded(s) == s

CssPathPseudoSelector_from_str(d) ==
    IF d = FIRST THEN Ok(First)
    ELSE IF d = LAST THEN Ok(Last)
    ELSE IF d = HOVER THEN Ok(Hover)
    ELSE IF d = ACTIVE THEN Ok(Active)
    ELSE IF d = FOCUS THEN Ok(Focus)
    ELSE IF starts_with(d, NTH_CHILD)
    THEN LET nth_child == split(d, NTH_CHILD)
             nth_child_string == TrimDiscarded(nth_child[2])
             between == TrimDiscarded(SubSeq(nth_child_string, 2, Len(nth_child_string) - 1))
             parsed_number == parse_usize(between)
         IN  IF ~starts_with(nth_child_string, <<"(">>) \/ ~ends_with(nth_child_string, <<")">>)
             THEN Err(UnclosedBracesNthChild(d))
             ELSE IF parsed_number.tag = "Err" THEN Err(InvalidNthChild(parsed_number.v))
             ELSE Ok(NthChild(parsed_number.v))
    ELSE Err(UnknownSelector(d))

-----------------------------------------------------------------------------
(* The inputs of the matcher.                                               *)

\* the selectors the paths are drawn from
MatchAlphabet ==
    {Global, Type("div"), Class("c"), Id("i"), First, DirectChildren, Children}

SeqsUpTo(S, n) == UNION {[1..k -> S] : k \in 0..n}

\* the facts a node of the drawn hierarchy can have
NodeKinds ==
    {HtmlCascadeInfo("div", {"c"}, {"i"}, 1, FALSE),
     HtmlCascadeInfo("div", {"c"}, {}, 2, TRUE),
     HtmlCascadeInfo("p", {}, {"i"}, 0, FALSE)}

\* a chain of d nodes: node 1 is the root, the parent of node k is node k - 1
Chain(d) == [k \in 1..d |-> [parent |-> k - 1]]

\* the stylesheet variables while no stylesheet operation is modelled
CssIdle ==
    /\ css = Css_default
    /\ op = "idle"
    /\ pre = Css_default
    /\ arg = Css_default

\* the comparison variables while no comparison is modelled
CmpIdle ==
    /\ cmp_paths = <<>>
    /\ cmp_result = <<>>

\* the cascade variables while no cascade is modelled
CascadeIdle ==
    /\ arena = <<>>
    /\ non_leaf_nodes = <<>>
    /\ html_tree = <<>>
    /\ styled_nodes = <<>>
    /\ visited = 0
    /\ cascade_pc = "idle"
    /\ returned = <<>>

\* the classifier variables while no classification is modelled
ClassifyIdle ==
    /\ key = <<>>
    /\ value = <<>>
    /\ classified = <<>>

\* the pseudo-selector parser variables while no parse is modelled
PseudoIdle ==
    /\ data = <<>>
    /\ parsed = <<>>

\* the iterator variables while no iterator is driven
IterIdle ==
    /\ iter_path = <<>>
    /\ iter = <<>>
    /\ yielded = <<>>
    /\ nones = 0

MatchInit ==
    /\ CssIdle
    /\ CmpIdle
    /\ CascadeIdle
    /\ ClassifyIdle
    /\ PseudoIdle
    /\ IterIdle
    /\ selectors \in SeqsUpTo(MatchAlphabet, MaxPathLen)
    /\ \E d \in 1..MaxDepth :
          /\ node_hierarchy = Chain(d)
          /\ html_node_tree \in [1..d -> NodeKinds]
          /\ node_id = d
    /\ pc = "call"
    /\ ret = "none"

MatchesHtmlElement ==
    /\ pc = "call"
    /\ ret' = matches_html_element(selectors, node_id, node_hierarchy, html_node_tree)
    /\ pc' = "done"
    /\ UNCHANGED <<selectors, node_id, node_hierarchy, html_node_tree>>
    /\ UNCHANGED <<cssVars, cmpVars, cascadeVars, classifyVars, pseudoVars, iterVars>>

MatchNext == MatchesHtmlElement

SpecMatch == MatchInit /\ [][MatchNext]_vars

-----------------------------------------------------------------------------
(* The stylesheet operations.                                               *)

RuleClass ==
    CssRuleBlock(<<Class("c")>>,
                 <<Static("blue"), Dynamic("my_id", "font"), Static("black")>>)
RuleClassFirst == CssRuleBlock(<<Global, Children, Class("c"), First>>, <<Static("font")>>)
RuleId == CssRuleBlock(<<Id("i")>>, <<Static("red")>>)
RuleTwoClasses ==
    CssRuleBlock(<<Class("c"), DirectChildren, Type("div"), Class("c")>>,
                 <<Dynamic("my_id", "auto")>>)

\* the rules the stylesheets are made of: two of equal specificity, (0, 1, 0),
\* below (0, 2, 1), below (1, 0, 0)
CssRules == {RuleClass, RuleClassFirst, RuleId, RuleTwoClasses}

\* the stylesheets a constructor returns
Constructed ==
    {Css_default} \cup {Css_new_from_str(rules) : rules \in SeqsUpTo(CssRules, MaxParsed)}

\* the matcher variables while no match is modelled
MatchIdle ==
    /\ selectors = <<>>
    /\ node_id = 1
    /\ node_hierarchy = Chain(1)
    /\ html_node_tree = <<HtmlCascadeInfo("div", {}, {}, 0, FALSE)>>
    /\ pc = "idle"
    /\ ret = "none"

\* the application starts with a parsed (here empty) stylesheet
CssInit ==
    /\ MatchIdle
    /\ CmpIdle
    /\ CascadeIdle
    /\ ClassifyIdle
    /\ PseudoIdle
    /\ IterIdle
    /\ css = Css_new_from_str(<<>>)
    /\ op = "new_from_str"
    /\ pre = Css_default
    /\ arg = Css_default

\* Css::default()
CssDefault ==
    /\ css' = Css_default
    /\ op' = "default"
    /\ pre' = Css_default
    /\ arg' = Css_default
    /\ UNCHANGED <<matchVars, cmpVars, cascadeVars, classifyVars, pseudoVars, iterVars>>

\* Css::new_from_str(..)
CssNewFromStr ==
    /\ \E rules \in SeqsUpTo(CssRules, MaxParsed) : css' = Css_new_from_str(rules)
    /\ op' = "new_from_str"
    /\ pre' = Css_default
    /\ arg' = Css_default
    /\ UNCHANGED <<matchVars, cmpVars, cascadeVars, classifyVars, pseudoVars, iterVars>>

\* css.merge(other), other a stylesheet just constructed
CssMerge ==
    /\ \E other \in Constructed :
          /\ Len(css.rules) + Len(other.rules) <= MaxRules
          /\ css' = Css_merge(css, other)
          /\ arg' = other
    /\ op' = "merge"
    /\ pre' = css
    /\ UNCHANGED <<matchVars, cmpVars, cascadeVars, classifyVars, pseudoVars, iterVars>>

\* css.sort_by_specificity()
CssSortBySpecificity ==
    /\ css' = Css_sort_by_specificity(css)
    /\ op' = "sort_by_specificity"
    /\ pre' = css
    /\ arg' = Css_default
    /\ UNCHANGED <<matchVars, cmpVars, cascadeVars, classifyVars, pseudoVars, iterVars>>

CssNext == CssDefault \/ CssNewFromStr \/ CssMerge \/ CssSortBySpecificity

SpecCss == CssInit /\ [][CssNext]_vars

-----------------------------------------------------------------------------
(* The comparison sort_by_specificity makes of two paths.                   *)

CmpInit ==
    /\ MatchIdle
    /\ CssIdle
    /\ CascadeIdle
    /\ ClassifyIdle
    /\ PseudoIdle
    /\ IterIdle
    /\ cmp_paths \in SeqsUpTo(MatchAlphabet, MaxCmpPathLen)
                     \X SeqsUpTo(MatchAlphabet, MaxCmpPathLen)
    /\ cmp_result = <<>>

\* get_specificity(&a.path).cmp(&get_specificity(&b.path))
CompareSpecificity ==
    /\ cmp_result = <<>>
    /\ cmp_result' = <<get_specificity(cmp_paths[1]), get_specificity(cmp_paths[2]),
                        TupleCmp(get_specificity(cmp_paths[1]),
                                 get_specificity(cmp_paths[2]), 1)>>
    /\ UNCHANGED <<cmp_paths, matchVars, cssVars, cascadeVars, classifyVars, pseudoVars, iterVars>>

CmpNext == CompareSpecificity

SpecCmp == CmpInit /\ [][CmpNext]_vars

-----------------------------------------------------------------------------
(* The cascade pass.                                                        *)

\* the trees of n nodes: node 1 is the root, the parent of a node has a smaller
\* id, and the children of a node are in the order of their ids
ParentVectors(n) ==
    {par \in [1..n -> 0..n] : par[1] = None /\ \A k \in 2..n : par[k] \in 1..(k - 1)}

Least(S) == IF S = {} THEN None ELSE CHOOSE x \in S : \A y \in S : x <= y
Greatest(S) == IF S = {} THEN None ELSE CHOOSE x \in S : \A y \in S : x >= y

Hierarchy(par) ==
    [k \in DOMAIN par |->
        LET siblings == {j \in DOMAIN par : j # 1 /\ k # 1 /\ par[j] = par[k]}
            kids == {j \in DOMAIN par : par[j] = k}
        IN  Node(par[k],
                 Greatest({j \in siblings : j < k}),
                 Least({j \in siblings : j > k}),
                 Least(kids),
                 Greatest(kids))]

\* NodeData: the type, classes and ids a node of the drawn trees can have
NodeDataKinds ==
    {[node_type |-> "div", classes |-> {"c"}, ids |-> {"i"}],
     [node_type |-> "p", classes |-> {}, ids |-> {}]}

\* the rules of the stylesheets given to the cascade
CascadeRules == {RuleClass, RuleClassFirst, RuleId}

\* a tree whose root has a child, and a stylesheet whose rules are in any order
\* (a merge leaves them unsorted)
CascadeInputs(max_nodes) ==
    /\ MatchIdle
    /\ CmpIdle
    /\ ClassifyIdle
    /\ PseudoIdle
    /\ IterIdle
    /\ \E n \in 2..max_nodes :
          \E par \in ParentVectors(n) :
             \E node_data \in [1..n -> NodeDataKinds] :
                arena = [node_layout |-> Hierarchy(par), node_data |-> node_data]
    /\ \E rules \in SeqsUpTo(CascadeRules, MaxSheetRules) :
          css = [rules |-> rules, needs_relayout |-> TRUE]
    /\ op = "idle"
    /\ pre = Css_default
    /\ arg = Css_default
    /\ non_leaf_nodes = <<>>
    /\ html_tree = <<>>
    /\ styled_nodes = <<>>
    /\ visited = 0
    /\ cascade_pc = "start"
    /\ returned = <<>>

CascadeInit == CascadeInputs(MaxNodes)

\* the statements before the loop
CascadeStart ==
    /\ cascade_pc = "start"
    /\ non_leaf_nodes' \in get_non_leaf_nodes_sorted_by_depth(arena.node_layout)
    /\ html_tree' = construct_html_cascade_tree(arena.node_data, arena.node_layout,
                                                non_leaf_nodes')
    /\ styled_nodes' = BTreeMap_new
    /\ visited' = 0
    /\ cascade_pc' = "loop"
    /\ UNCHANGED <<arena, returned, matchVars, cssVars, cmpVars, classifyVars, pseudoVars, iterVars>>

\* one iteration of the loop over non_leaf_nodes
CascadeVisit ==
    /\ cascade_pc = "loop"
    /\ visited < Len(non_leaf_nodes)
    /\ styled_nodes' = StyleParent(styled_nodes, non_leaf_nodes[visited + 1],
                                   css.rules, arena.node_layout, html_tree)
    /\ visited' = visited + 1
    /\ UNCHANGED <<arena, non_leaf_nodes, html_tree, cascade_pc, returned,
                   matchVars, cssVars, cmpVars, classifyVars, pseudoVars, iterVars>>

\* the loop is over: the UiDescription is returned
CascadeReturn ==
    /\ cascade_pc = "loop"
    /\ visited = Len(non_leaf_nodes)
    /\ cascade_pc' = "done"
    /\ returned' = Append(returned, UiDescription(arena, styled_nodes, css))
    /\ UNCHANGED <<arena, non_leaf_nodes, html_tree, styled_nodes, visited,
                   matchVars, cssVars, cmpVars, classifyVars, pseudoVars, iterVars>>

CascadeNext == CascadeStart \/ CascadeVisit \/ CascadeReturn

SpecCascade == CascadeInit /\ [][CascadeNext]_vars

\* the next frame: match_dom_css_selectors is called again with the same
\* ui_state and the same stylesheet
CascadeNextFrame ==
    /\ cascade_pc = "done"
    /\ Len(returned) < MaxFrames
    /\ cascade_pc' = "start"
    /\ UNCHANGED <<arena, non_leaf_nodes, html_tree, styled_nodes, visited, returned,
                   matchVars, cssVars, cmpVars, classifyVars, pseudoVars, iterVars>>

FramesInit == CascadeInputs(MaxFrameNodes)

FramesNext == CascadeNext \/ CascadeNextFrame

SpecFrames == FramesInit /\ [][FramesNext]_vars


-----------------------------------------------------------------------------
(* The classifier of property declarations.                                 *)

\* the keys, and the pieces the values are put together from
Keys == {TEXT_ALIGN, WIDTH}
\* (center is a value of text-align and an identifier for width, 4px is a value
\* of width and starts with a numeral)
ValueTokens == {<<" ">>, <<"|">>, CENTER, AUTO, PX4}
ValueStarts ==
    {<<>>, START_BRACE, <<" ">> \o START_BRACE, START_BRACE \o <<" ">>,
     START_BRACE \o START_BRACE}
ValueEnds ==
    {<<>>, END_BRACE, END_BRACE \o <<" ">>, <<" ">> \o END_BRACE, END_BRACE \o END_BRACE}

RECURSIVE Flatten(_)
Flatten(pieces) == IF pieces = <<>> THEN <<>> ELSE Head(pieces) \o Flatten(Tail(pieces))

ClassifyInit ==
    /\ MatchIdle
    /\ CssIdle
    /\ CmpIdle
    /\ CascadeIdle
    /\ PseudoIdle
    /\ IterIdle
    /\ key \in Keys
    /\ \E start \in ValueStarts, pieces \in SeqsUpTo(ValueTokens, MaxValueTokens),
          end \in ValueEnds :
          value = start \o Flatten(pieces) \o end
    /\ classified = <<>>

\* determine_static_or_dynamic_css_property(key, value)
Classify ==
    /\ classified = <<>>
    /\ classified' = determine_static_or_dynamic_css_property(key, value)
    /\ UNCHANGED <<key, value, matchVars, cssVars, cmpVars, cascadeVars, pseudoVars, iterVars>>

ClassifyNext == Classify

SpecClassify == ClassifyInit /\ [][ClassifyNext]_vars

-----------------------------------------------------------------------------
(* The parser of the pseudo selectors.                                      *)

\* the keywords, as they are and with another case, a character more or a
\* character less
KeywordInputs ==
    UNION {{w, <<"F">> \o Tail(w), w \o <<" ">>, <<" ">> \o w, w \o <<"x">>, Tail(w)} :
              w \in {FIRST, LAST, HOVER, ACTIVE, FOCUS}}

\* the pieces the other inputs are put together from
DataTokens == {NTH_CHILD, <<"(">>, <<")">>, <<"4">>, <<"2">>, <<" ">>, <<"x">>}

PseudoInit ==
    /\ MatchIdle
    /\ CssIdle
    /\ CmpIdle
    /\ CascadeIdle
    /\ ClassifyIdle
    /\ IterIdle
    /\ \/ data \in KeywordInputs
       \/ \E pieces \in SeqsUpTo(DataTokens, MaxDataTokens) : data = Flatten(pieces)
    /\ parsed = <<>>

\* CssPathPseudoSelector::from_str(data)
PseudoFromStr ==
    /\ parsed = <<>>
    /\ parsed' = CssPathPseudoSelector_from_str(data)
    /\ UNCHANGED <<data, matchVars, cssVars, cmpVars, cascadeVars, classifyVars, iterVars>>

PseudoNext == PseudoFromStr

SpecPseudo == PseudoInit /\ [][PseudoNext]_vars

-----------------------------------------------------------------------------
(* The matcher on paths of several content groups.                          *)

\* the selectors of these paths
WalkAlphabet == {Global, Class("c"), DirectChildren, Children}

\* the facts of the nodes of the chain: with the class and without it
WalkKinds ==
    {HtmlCascadeInfo("div", {"c"}, {}, 1, TRUE),
     HtmlCascadeInfo("div", {}, {}, 1, TRUE)}

WalkInit ==
    /\ CssIdle
    /\ CmpIdle
    /\ CascadeIdle
    /\ ClassifyIdle
    /\ PseudoIdle
    /\ IterIdle
    /\ selectors \in SeqsUpTo(WalkAlphabet, MaxWalkPathLen)
    /\ \E d \in 1..MaxWalkDepth :
          /\ node_hierarchy = Chain(d)
          /\ html_node_tree \in [1..d -> WalkKinds]
          /\ node_id = d
    /\ pc = "call"
    /\ ret = "none"

WalkNext == MatchesHtmlElement

SpecWalk == WalkInit /\ [][WalkNext]_vars

-----------------------------------------------------------------------------
(* A CssGroupIterator driven call by call.                                  *)

\* the selectors the walked paths are made of
IterAlphabet == {Global, Class("c"), Id("i"), DirectChildren, Children}

\* CssGroupIterator::new(&css_path)
IterInit ==
    /\ MatchIdle
    /\ CssIdle
    /\ CmpIdle
    /\ CascadeIdle
    /\ ClassifyIdle
    /\ PseudoIdle
    /\ iter_path \in SeqsUpTo(IterAlphabet, MaxIterPathLen)
    /\ iter = CssGroupIterator_new(iter_path)
    /\ yielded = <<>>
    /\ nones = 0

\* one call of next() that returns Some((group, reason))
IterNextSome ==
    LET n == CssGroupIterator_next(iter_path, iter)
    IN  /\ n.some
        /\ iter' = n.it
        /\ yielded' = Append(yielded, [group |-> n.group, reason |-> n.reason,
                                       idx_before |-> iter.current_idx,
                                       idx_after |-> n.it.current_idx,
                                       after_none |-> nones > 0])
        /\ UNCHANGED <<iter_path, nones>>
        /\ UNCHANGED <<matchVars, cssVars, cmpVars, cascadeVars, classifyVars, pseudoVars>>

\* one call of next() that returns None
IterNextNone ==
    LET n == CssGroupIterator_next(iter_path, iter)
    IN  /\ ~n.some
        /\ nones < MaxNones
        /\ iter' = n.it
        /\ nones' = nones + 1
        /\ UNCHANGED <<iter_path, yielded>>
        /\ UNCHANGED <<matchVars, cssVars, cmpVars, cascadeVars, classifyVars, pseudoVars>>

IterNext == IterNextSome \/ IterNextNone

SpecIter == IterInit /\ [][IterNext]_vars

-----------------------------------------------------------------------------
(* Properties of the matcher, checked under SpecMatch.                      *)

IsCombinator(s) == s.kind \in {"DirectChildren", "Children"}

\* what it means for a node to satisfy one atomic selector
Satisfies(s, facts) ==
    \/ s = Global
    \/ s.kind = "Type" /\ facts.node_data.node_type = s.name
    \/ s.kind = "Class" /\ s.name \in facts.node_data.classes
    \/ s.kind = "Id" /\ s.name \in facts.node_data.ids
    \/ s = First /\ facts.index_in_parent = 1
    \/ s = Last /\ facts.is_last_child
    \/ s.kind = "NthChild" /\ facts.index_in_parent = s.n
    \/ s = Hover /\ facts.is_hovered_over
    \/ s = Active /\ facts.is_active
    \/ s = Focus /\ facts.is_focused

SingleGroup(path) == path # <<>> /\ \A i \in DOMAIN path : ~IsCombinator(path[i])

\* C1: a path of one content group (no combinator) matches a node exactly when
\* the node satisfies every atomic selector of the group, whatever its
\* ancestors are; so `.c` matches every node of class c whatever its ids,
\* `#i.c` only the nodes with both, and `*` alone every node.
C1_SingleGroupIsConjunction ==
    (pc = "done" /\ SingleGroup(selectors)) =>
        /\ ret \in {"true", "false"}
        /\ (ret = "true") <=>
              \A i \in DOMAIN selectors : Satisfies(selectors[i], html_node_tree[node_id])
        /\ selectors = <<Class("c")>> =>
              ((ret = "true") <=> ("c" \in html_node_tree[node_id].node_data.classes))
        /\ selectors = <<Id("i"), Class("c")>> =>
              ((ret = "true") <=> /\ "c" \in html_node_tree[node_id].node_data.classes
                                  /\ "i" \in html_node_tree[node_id].node_data.ids)
        /\ selectors = <<Global>> => ret = "true"

\* `#i.c` was matched against a node with both, below an ancestor without the id
C1_Witness ==
    /\ pc = "done"
    /\ selectors = <<Id("i"), Class("c")>>
    /\ node_id > 1
    /\ "i" \notin html_node_tree[node_id - 1].node_data.ids
    /\ ret = "true"

\* C6: a path without any atomic selector (empty, or made of combinator
\* markers only) matches no node.
C6_NoAtomicSelectorNeverMatches ==
    (pc = "done" /\ \A i \in DOMAIN selectors : IsCombinator(selectors[i])) =>
        ret = "false"

Malformed(path) ==
    /\ path # <<>>
    /\ \/ IsCombinator(path[1])
       \/ IsCombinator(path[Len(path)])
       \/ \E i \in 1..(Len(path) - 1) : IsCombinator(path[i]) /\ IsCombinator(path[i + 1])

\* C8: whatever the path, also one with leading, trailing or adjacent
\* combinator markers, no content group the iterator yields holds a combinator
\* marker, and the matcher returns true or false and never panics.
C8_MatchingNeverPanics ==
    /\ LET pairs == IterCollect(selectors, CssGroupIterator_new(selectors))
       IN  \A g \in DOMAIN pairs :
              \A i \in DOMAIN pairs[g].group : ~IsCombinator(pairs[g].group[i])
    /\ pc = "done" => ret \in {"true", "false"}

\* a path with a leading and an adjacent marker was matched and did not match
C8_Witness ==
    /\ pc = "done"
    /\ Malformed(selectors)
    /\ selectors = <<DirectChildren, Children, Class("c")>>
    /\ ret = "false"

\* the rightmost content group of a path: its selectors after the last
\* combinator marker
RightmostGroup(path) ==
    LET markers == {i \in DOMAIN path : IsCombinator(path[i])}
        last_marker == IF markers = {} THEN 0
                       ELSE CHOOSE i \in markers : \A j \in markers : i >= j
    IN  SubSeq(path, last_marker + 1, Len(path))

\* C20: a path matches a target node only if the target itself satisfies the
\* rightmost content group of the path, with any number of groups and
\* combinators before it (stated for the paths whose groups are not empty, so
\* that an empty group is not what decides).
C20_TargetSatisfiesRightmostGroup ==
    (pc = "done" /\ ret = "true" /\ ~Malformed(selectors)) =>
        \A i \in DOMAIN RightmostGroup(selectors) :
            Satisfies(RightmostGroup(selectors)[i], html_node_tree[node_id])

-----------------------------------------------------------------------------
(* Properties of the stylesheet operations, checked under SpecCss, and of   *)
(* the specificity, checked under SpecCmp.                                  *)

\* the number of selectors of one kind in a path
Count(path, kind) == Cardinality({i \in DOMAIN path : path[i].kind = kind})

\* the specificity triple as the claim states it
Triple(path) == <<Count(path, "Id"), Count(path, "Class"), Count(path, "Type")>>

\* lexicographic order on triples, the id count most significant
LexLess(a, b) ==
    \/ a[1] < b[1]
    \/ a[1] = b[1] /\ a[2] < b[2]
    \/ a[1] = b[1] /\ a[2] = b[2] /\ a[3] < b[3]

PermutationsOf(n) == {p \in [1..n -> 1..n] : \A i, j \in 1..n : p[i] = p[j] => i = j}

\* C4: after sort_by_specificity the rules are a permutation of the rules
\* before, non-decreasing by specificity, and rules of equal specificity keep
\* their relative order.
C4_SortIsStablePermutation ==
    op = "sort_by_specificity" =>
        /\ Len(css.rules) = Len(pre.rules)
        /\ \E p \in PermutationsOf(Len(pre.rules)) :
              /\ \A i \in DOMAIN css.rules : css.rules[i] = pre.rules[p[i]]
              /\ \A i, j \in DOMAIN css.rules :
                    (i < j /\ Triple(css.rules[i].path) = Triple(css.rules[j].path))
                        => p[i] < p[j]
        /\ \A i, j \in DOMAIN css.rules :
              i < j => ~LexLess(Triple(css.rules[j].path), Triple(css.rules[i].path))
        /\ css.needs_relayout = pre.needs_relayout

\* an unsorted list with two rules of equal specificity was sorted
C4_Witness ==
    /\ op = "sort_by_specificity"
    /\ pre.rules = <<RuleId, RuleClass, RuleClassFirst>>
    /\ css.rules = <<RuleClass, RuleClassFirst, RuleId>>

\* C5: get_specificity is (number of Id, of Class, of Type selectors) over the
\* whole path, nothing else counted, and two triples compare lexicographically,
\* the id count first.
C5_SpecificityIsCountTriple ==
    cmp_result # <<>> =>
        /\ cmp_result[1] = Triple(cmp_paths[1])
        /\ cmp_result[2] = Triple(cmp_paths[2])
        /\ cmp_result[3] \in {"Less", "Equal", "Greater"}
        /\ (cmp_result[3] = "Less") <=> LexLess(Triple(cmp_paths[1]), Triple(cmp_paths[2]))
        /\ (cmp_result[3] = "Greater") <=> LexLess(Triple(cmp_paths[2]), Triple(cmp_paths[1]))

\* one id, with a pseudo selector, was compared with two classes and a combinator
C5_Witness ==
    /\ cmp_paths = <<(<<Id("i"), First>>), (<<Class("c"), Class("c")>>)>>
    /\ cmp_result = <<(<<1, 0, 0>>), (<<0, 2, 0>>), "Greater">>

C10_ConstructedNeedsRelayout ==
    op \in {"default", "new_from_str"} => css.needs_relayout

-----------------------------------------------------------------------------
(* Properties of the cascade, checked under SpecCascade.                    *)

\* the rule matches the node itself
MatchesDirectly(rule, n) ==
    matches_html_element(rule.path, n, arena.node_layout, html_tree) = "true"

\* the declarations of the rules that match n, rule after rule
RECURSIVE DirectDeclarations(_, _)
DirectDeclarations(rules, n) ==
    IF rules = <<>> THEN <<>>
    ELSE (IF MatchesDirectly(Head(rules), n) THEN Head(rules).declarations ELSE <<>>)
         \o DirectDeclarations(Tail(rules), n)

\* the last k elements of a list
Suffix(list, k) == SubSeq(list, Len(list) - k + 1, Len(list))

\* where the declarations of rule k start in the direct part of node n
RECURSIVE OffsetOf(_, _)
OffsetOf(k, n) ==
    IF k = 1 THEN 0
    ELSE OffsetOf(k - 1, n)
         + (IF MatchesDirectly(css.rules[k - 1], n)
            THEN Len(css.rules[k - 1].declarations) ELSE 0)

SortedBySpecificity(rules) ==
    \A i, j \in DOMAIN rules :
        i < j => ~LexLess(Triple(rules[j].path), Triple(rules[i].path))

\* C2: what a node gets from the rules matching it directly is those rules'
\* declaration lists concatenated in stylesheet order; in a sorted stylesheet
\* the declarations of a rule of lower specificity come before those of a rule
\* of higher specificity: `#i {red} .c {blue ..}` gives a node with both
\* [blue, .., red].
C2_DirectMatchesInStylesheetOrder ==
    cascade_pc = "done" =>
        \A n \in DOMAIN styled_nodes :
            LET direct == DirectDeclarations(css.rules, n)
                got == Suffix(styled_nodes[n], Len(direct))
                matching == {k \in DOMAIN css.rules : MatchesDirectly(css.rules[k], n)}
            IN  /\ Len(styled_nodes[n]) >= Len(direct)
                /\ \A k \in matching :
                      SubSeq(got, OffsetOf(k, n) + 1,
                             OffsetOf(k, n) + Len(css.rules[k].declarations))
                          = css.rules[k].declarations
                /\ SortedBySpecificity(css.rules) =>
                      \A k1, k2 \in matching :
                          LexLess(Triple(css.rules[k1].path), Triple(css.rules[k2].path))
                              => \A a \in 1..Len(css.rules[k1].declarations),
                                    b \in 1..Len(css.rules[k2].declarations) :
                                     OffsetOf(k1, n) + a < OffsetOf(k2, n) + b
                /\ (css.rules = <<RuleClass, RuleId>> /\ arena.node_data[n].ids = {"i"})
                      => got = RuleClass.declarations \o <<Static("red")>>

\* the sorted `.c {blue [[my_id | font]] black} #i {red}` was applied to a leaf
\* with both, below a root with neither
C2_Witness ==
    /\ cascade_pc = "done"
    /\ css.rules = <<RuleClass, RuleId>>
    /\ arena.node_layout[2].first_child = None
    /\ arena.node_data[2].ids = {"i"}
    /\ arena.node_data[1].ids = {}
    /\ styled_nodes[2] = <<Static("blue"), Dynamic("my_id", "font"), Static("black"),
                           Static("red")>>

Elements(list) == {list[i] : i \in DOMAIN list}

\* C3: after the pass the root has its direct matches, and every other node,
\* leaf or not, has the inheritable declarations of its parent's final list
\* followed by its own direct matches; so an inheritable declaration matched
\* on the root reaches every node below it.
C3_InheritedThenDirect ==
    cascade_pc = "done" =>
        /\ DOMAIN styled_nodes = DOMAIN arena.node_layout
        /\ styled_nodes[1] = DirectDeclarations(css.rules, 1)
        /\ \A n \in DOMAIN arena.node_layout \ {1} :
              styled_nodes[n] =
                  SelectSeq(styled_nodes[arena.node_layout[n].parent],
                            CssDeclaration_is_inheritable)
                  \o DirectDeclarations(css.rules, n)
        /\ \A d \in Elements(DirectDeclarations(css.rules, 1)) :
              CssDeclaration_is_inheritable(d) =>
                  \A n \in DOMAIN arena.node_layout : d \in Elements(styled_nodes[n])

\* `.c {blue [[my_id | font]] black}`, black inheritable, on a tree of three
\* levels where only the root has class c: the inner child, the leaf child and
\* the grandchild all get black and nothing else
C3_Witness ==
    /\ cascade_pc = "done"
    /\ css.rules = <<RuleClass>>
    /\ Len(arena.node_layout) = 4
    /\ arena.node_layout[2].first_child = 4
    /\ arena.node_layout[3].parent = 1
    /\ arena.node_data[1].classes = {"c"}
    /\ \A n \in 2..4 : arena.node_data[n].classes = {}
    /\ styled_nodes[1] = <<Static("blue"), Dynamic("my_id", "font"), Static("black")>>
    /\ \A n \in 2..4 : styled_nodes[n] = <<Static("black")>>

\* C7: a Dynamic declaration is never inheritable, so a node's list holds a
\* Dynamic declaration only if a rule holding it matches the node itself.
C7_DynamicOnlyFromDirectMatch ==
    /\ \A k \in DOMAIN css.rules :
          \A d \in Elements(css.rules[k].declarations) :
              d.kind = "Dynamic" => ~CssDeclaration_is_inheritable(d)
    /\ \A n \in DOMAIN styled_nodes :
          \A d \in Elements(styled_nodes[n]) :
              d.kind = "Dynamic" =>
                  \E k \in DOMAIN css.rules :
                      /\ MatchesDirectly(css.rules[k], n)
                      /\ d \in Elements(css.rules[k].declarations)

\* the root matched a rule with a Dynamic declaration whose default is an
\* inheritable property; its child inherited black but not the Dynamic one
C7_Witness ==
    /\ cascade_pc = "done"
    /\ css.rules = <<RuleClass>>
    /\ Dynamic("my_id", "font") \in Elements(styled_nodes[1])
    /\ arena.node_data[2].classes = {}
    /\ styled_nodes[2] = <<Static("black")>>

-----------------------------------------------------------------------------
(* Properties of repeated cascade passes, checked under SpecFrames.         *)

-----------------------------------------------------------------------------
(* Properties of the classifier, checked under SpecClassify.                *)

Numerals == {"0", "1", "2", "3", "4", "5", "6", "7", "8", "9"}

\* s without the whitespace at its two ends
Strip(s) ==
    LET solid == {i \in DOMAIN s : s[i] # " "}
    IN  IF solid = {} THEN <<>>
        ELSE SubSeq(s, CHOOSE i \in solid : \A j \in solid : i <= j,
                       CHOOSE i \in solid : \A j \in solid : i >= j)

\* the number of opening delimiters s starts with, and of closing ones it ends with
Opening(s) ==
    Cardinality({n \in 1..(Len(s) \div 2) : \A j \in 1..(2 * n) : s[j] = "["})
Closing(s) ==
    Cardinality({n \in 1..(Len(s) \div 2) :
                    \A j \in (Len(s) - 2 * n + 1)..Len(s) : s[j] = "]"})

\* how a value reads: whether it is wrapped in the delimiters, its body (the
\* text between the opening delimiters the value starts with and the closing
\* delimiters it ends with), whether the body has a pipe, and the identifier and
\* the default (the body before and after its first pipe)
Shape(v) ==
    LET s == Strip(v)
        first == 2 * Opening(s) + 1
        last == Len(s) - 2 * Closing(s)
        body == IF first > last THEN <<>> ELSE SubSeq(s, first, last)
        pipes == {i \in DOMAIN body : body[i] = "|"}
        first_pipe == IF pipes = {} THEN 0 ELSE CHOOSE i \in pipes : \A j \in pipes : i <= j
    IN  [bracketed |-> Opening(s) >= 1 /\ Closing(s) >= 1,
         body |-> body,
         has_pipe |-> pipes # {},
         before_pipe |-> IF pipes = {} THEN body ELSE SubSeq(body, 1, first_pipe - 1),
         id |-> IF pipes = {} THEN <<>> ELSE Strip(SubSeq(body, 1, first_pipe - 1)),
         default |-> IF pipes = {} THEN <<>>
                     ELSE Strip(SubSeq(body, first_pipe + 1, Len(body)))]

IsValue(k, text) == ParsedCssProperty_from_kv(Strip(k), text).tag = "Ok"

IsErr(result, e) == result.tag = "Err" /\ result.v.error = e.error /\ result.v = e
IsStatic(result, property) ==
    result.tag = "Ok" /\ result.v.kind = "Static" /\ result.v.value = property
IsDynamic(result, id, default) ==
    /\ result.tag = "Ok"
    /\ result.v.kind = "Dynamic"
    /\ result.v.dynamic_id = id
    /\ result.v.value = default

\* C12: the classifier decides by the delimiters of the trimmed value: exactly
\* one of "starts with [[" and "ends with ]]" gives the unbalanced-brace error;
\* neither gives Static(property) if the value parses for the key and the
\* property parser's error if not; only both give a dynamic declaration or
\* one of the errors of the dynamic form.
C12_DecidedByDelimiters ==
    classified # <<>> =>
        LET v == Strip(value)
            opens == starts_with(v, START_BRACE)
            closes == ends_with(v, END_BRACE)
            property == ParsedCssProperty_from_kv(Strip(key), v)
        IN  /\ (opens # closes) => IsErr(classified, UnclosedBraces)
            /\ (~opens /\ ~closes) =>
                  IF property.tag = "Ok" THEN IsStatic(classified, property.v)
                  ELSE IsErr(classified, UnexpectedValue(property.v))
            /\ (opens /\ closes) =>
                  /\ classified.tag = "Ok" => classified.v.kind = "Dynamic"
                  /\ classified.tag = "Err" => classified.v.error # "UnclosedBraces"
            /\ (classified.tag = "Ok" /\ classified.v.kind = "Dynamic") => (opens /\ closes)

\* a value that ends with the closing delimiter without starting with the
\* opening one was classified
C12_Witness ==
    /\ classified # <<>>
    /\ ~starts_with(Strip(value), START_BRACE)
    /\ ends_with(Strip(value), END_BRACE)
    /\ Len(Strip(value)) > 2
    /\ IsErr(classified, UnclosedBraces)

\* C13: a value [[ id | default ]] with a valid identifier and a default is
\* classified as Dynamic with the trimmed identifier, and with Auto exactly if
\* the trimmed default is the literal auto, else with Exact(the default parsed
\* for the key); if that parse fails the result is the wrapped error of the
\* property parser.
C13_DynamicWithValidIdentifier ==
    classified # <<>> =>
        LET shape == Shape(value)
            property == ParsedCssProperty_from_kv(Strip(key), shape.default)
        IN  (/\ shape.bracketed
             /\ shape.has_pipe
             /\ shape.id # <<>>
             /\ shape.id[1] \notin Numerals
             /\ ~IsValue(key, shape.id)
             /\ shape.default # <<>>) =>
                IF shape.default = AUTO
                THEN IsDynamic(classified, shape.id, Auto)
                ELSE IF property.tag = "Ok"
                THEN /\ IsDynamic(classified, shape.id, Exact(property.v))
                     /\ Exact(property.v) # Auto
                ELSE IsErr(classified, UnexpectedValue(property.v))

\* an identifier with whitespace before it and the default auto were classified
\* as Dynamic with Auto
C13_Witness ==
    /\ classified # <<>>
    /\ Shape(value).bracketed
    /\ Shape(value).before_pipe = <<" ">> \o CENTER
    /\ Shape(value).default = AUTO
    /\ IsDynamic(classified, CENTER, Auto)

C15_IncompleteBody ==
    classified # <<>> =>
        LET shape == Shape(value)
            body == Strip(shape.body)
        IN  shape.bracketed =>
                IF shape.has_pipe
                THEN /\ (shape.id = <<>> /\ shape.default = <<>>) =>
                            IsErr(classified, EmptyBraces)
                     /\ (shape.id = <<>> /\ shape.default # <<>>) =>
                            IsErr(classified, NoId)
                     /\ (shape.id # <<>> /\ shape.default = <<>>) =>
                            IsErr(classified, NoDefaultCase)
                ELSE /\ body = <<>> => IsErr(classified, EmptyBraces)
                     /\ (body # <<>> /\ ~IsValue(key, body)) =>
                            IsErr(classified, NoDefaultCase)

\* a body with a pipe, no identifier and a default was classified
C15_Witness ==
    /\ classified # <<>>
    /\ Shape(value).bracketed
    /\ Shape(value).has_pipe
    /\ Shape(value).id = <<>>
    /\ Shape(value).default = AUTO
    /\ IsErr(classified, NoId)

\* the error returned for a body with a pipe, no identifier and a default
MissingIdError(k) ==
    determine_static_or_dynamic_css_property(
        k, START_BRACE \o <<" ", "|", " ">> \o AUTO \o END_BRACE).v

\* C16 as the specification states it: a bracketed value without a pipe whose
\* inner text parses as a property value for the key gives an error that is
\* another error value than the one for a missing identifier.
C16_InvalidDeclarationIsDistinct ==
    classified # <<>> =>
        LET shape == Shape(value)
        IN  (shape.bracketed /\ ~shape.has_pipe /\ IsValue(key, Strip(shape.body))) =>
                /\ classified.tag = "Err"
                /\ classified.v # MissingIdError(key)

\* C16, amended: a bracketed value without a pipe whose inner text parses as a
\* property value for the key gives the error NoId, the error value that a
\* body with a pipe, no identifier and a default gives too.
C16_ValueWithoutPipeIsNoId ==
    classified # <<>> =>
        LET shape == Shape(value)
        IN  (shape.bracketed /\ ~shape.has_pipe /\ IsValue(key, Strip(shape.body))) =>
                /\ IsErr(classified, NoId)
                /\ classified.v = MissingIdError(key)

\* [[ center ]] was classified for text-align
C16_Witness ==
    /\ classified # <<>>
    /\ key = TEXT_ALIGN
    /\ Shape(value).bracketed
    /\ Shape(value).body = <<" ">> \o CENTER \o <<" ">>
    /\ IsErr(classified, NoId)

-----------------------------------------------------------------------------
(* Properties of the pseudo-selector parser, checked under SpecPseudo.      *)

\* the selector of a keyword
KeywordSelector(text) ==
    IF text = FIRST THEN First
    ELSE IF text = LAST THEN Last
    ELSE IF text = HOVER THEN Hover
    ELSE IF text = ACTIVE THEN Active
    ELSE Focus

\* what follows the prefix nth-child, and what is between its first and last
\* character
Remainder(text) == SubSeq(text, Len(NTH_CHILD) + 1, Len(text))
Between(text) == SubSeq(Remainder(text), 2, Len(Remainder(text)) - 1)
Parenthesized(text) ==
    /\ Len(Remainder(text)) >= 2
    /\ Remainder(text)[1] = "("
    /\ Remainder(text)[Len(Remainder(text))] = ")"
IsDecimal(text) == text # <<>> /\ \A i \in DOMAIN text : text[i] \in Numerals

\* C18: the parser returns First, Last, Hover, Active, Focus exactly for the
\* lowercase keywords; any other input that does not start with nth-child
\* gives UnknownSelector with the input; an input starting with nth-child whose
\* remainder does not both start with ( and end with ) gives the
\* unclosed-parentheses error; a remainder (n) with n a decimal integer gives
\* NthChild(n), and content that is no decimal integer the invalid-integer
\* error.
C18_PseudoSelectorParser ==
    parsed # <<>> =>
        IF data \in {FIRST, LAST, HOVER, ACTIVE, FOCUS}
        THEN parsed = Ok(KeywordSelector(data))
        ELSE IF ~starts_with(data, NTH_CHILD)
        THEN IsErr(parsed, UnknownSelector(data))
        ELSE IF ~Parenthesized(data)
        THEN IsErr(parsed, UnclosedBracesNthChild(data))
        ELSE IF IsDecimal(Between(data))
        THEN parsed = Ok(NthChild(DigitsValue(Between(data))))
        ELSE parsed.tag = "Err" /\ parsed.v.error = "InvalidNthChild"

\* C19: the integer between the parentheses is trimmed before it is parsed:
\* nth-child( n ), with whitespace around the decimal integer n, gives
\* NthChild(n).
C19_NthChildIsTrimmed ==
    (/\ parsed # <<>>
     /\ starts_with(data, NTH_CHILD)
     /\ Parenthesized(data)
     /\ IsDecimal(Strip(Between(data)))) =>
        parsed = Ok(NthChild(DigitsValue(Strip(Between(data)))))

-----------------------------------------------------------------------------
(* Properties of the group iterator, checked under SpecIter.                *)

\* the positions of the combinator markers of a path
Markers(path) == {i \in DOMAIN path : IsCombinator(path[i])}

\* the j-th marker counted from the end of the path
MarkerFromRight(path, j) ==
    CHOOSE m \in Markers(path) : Cardinality({x \in Markers(path) : x > m}) = j - 1

\* the j-th run of selectors between markers, counted from the end of the path
RunFromRight(path, j) ==
    LET k == Cardinality(Markers(path))
        hi == IF j = 1 THEN Len(path) + 1 ELSE MarkerFromRight(path, j - 1)
        lo == IF j = k + 1 THEN 0 ELSE MarkerFromRight(path, j)
    IN  SubSeq(path, lo + 1, hi - 1)

\* the marker immediately left of the j-th run; the leftmost run has none and
\* takes the one of the run before, a path without markers the default
TagFromRight(path, j) ==
    LET k == Cardinality(Markers(path))
    IN  IF k = 0 THEN "Children"
        ELSE IF j = k + 1 THEN path[MarkerFromRight(path, k)].kind
        ELSE path[MarkerFromRight(path, j)].kind

WellFormed(path) == path # <<>> /\ ~Malformed(path)

\* C25 as stated: the first pair yielded carries the default Descendant tag,
\* whatever marker stands immediately left of the rightmost group.
C25_FirstGroupTaggedDescendant ==
    yielded # <<>> => yielded[1].reason = "Children"

\* C25: the first pair yielded carries the marker that stands immediately
\* left of the rightmost group: DirectChild when that marker is a DirectChild
\* marker, Descendant when it is a Descendant marker, and the default
\* Descendant only when the path has no marker at all.
C25_FirstGroupTaggedByMarkerToItsLeft ==
    yielded # <<>> =>
        yielded[1].reason =
            IF Markers(iter_path) = {} THEN "Children"
            ELSE LET m == CHOOSE x \in Markers(iter_path) :
                              \A y \in Markers(iter_path) : y <= x
                 IN  iter_path[m].kind

C25_Witness ==
    /\ Len(iter_path) = 3
    /\ iter_path[2] = DirectChildren
    /\ ~IsCombinator(iter_path[1]) /\ ~IsCombinator(iter_path[3])
    /\ Len(yielded) >= 1
    /\ yielded[1].group = <<iter_path[3]>>
    /\ yielded[1].reason = "DirectChildren"

C27_IteratorYieldsRunsAndEnds ==
    WellFormed(iter_path) =>
        LET k == Cardinality(Markers(iter_path))
        IN  /\ Len(yielded) <= k + 1
            /\ \A j \in DOMAIN yielded :
                   /\ yielded[j].group = RunFromRight(iter_path, j)
                   /\ yielded[j].idx_after < yielded[j].idx_before
                   /\ ~yielded[j].after_none
            /\ nones > 0 => Len(yielded) = k + 1
            /\ iter.current_idx = 0 => ~CssGroupIterator_next(iter_path, iter).some
            /\ Len(yielded) = k + 1 => iter.current_idx = 0

C27_Witness ==
    /\ WellFormed(iter_path)
    /\ Len(iter_path) = 4
    /\ Cardinality(Markers(iter_path)) = 1
    /\ Len(yielded) = 2
    /\ \E j \in DOMAIN yielded :
          Len(yielded[j].group) = 2 /\ yielded[j].group[1] # yielded[j].group[2]
    /\ nones = MaxNones

-----------------------------------------------------------------------------
(* Properties of the tree walk of the matcher, checked under SpecWalk.      *)

\* the number of content groups the walk goes through: the runs between the
\* markers, without the empty run left of a leading marker
GroupCount(path) ==
    Cardinality(Markers(path)) + (IF IsCombinator(path[1]) THEN 0 ELSE 1)

\* the i-th ancestor of a node (the node itself for i = 0), None past the root
RECURSIVE Ancestor(_, _, _)
Ancestor(hierarchy, node, i) ==
    IF i = 0 \/ node = None THEN node
    ELSE Ancestor(hierarchy, hierarchy[node].parent, i - 1)

\* the number of nodes from the target up to the root
ChainLength(hierarchy, node) ==
    Cardinality({i \in 0..Len(hierarchy) : Ancestor(hierarchy, node, i) # None})

\* a node satisfies a content group: every atomic selector of it
GroupSatisfied(group, facts) == \A i \in DOMAIN group : Satisfies(group[i], facts)

\* the j-th group from the right is satisfied by the node it is paired with
SatisfiedAt(j) ==
    GroupSatisfied(RunFromRight(selectors, j),
                   html_node_tree[Ancestor(node_hierarchy, node_id, j - 1)])

\* the groups, counted from the right, that stand right after a DirectChild
\* marker, have a node and are not satisfied by it
DirectMismatches ==
    {j \in 2..GroupCount(selectors) :
        /\ TagFromRight(selectors, j - 1) = "DirectChildren"
        /\ Ancestor(node_hierarchy, node_id, j - 1) # None
        /\ ~SatisfiedAt(j)}

\* the last group that is tested against a node
LastTested ==
    IF DirectMismatches # {}
    THEN CHOOSE j \in DirectMismatches : \A x \in DirectMismatches : j <= x
    ELSE IF GroupCount(selectors) <= ChainLength(node_hierarchy, node_id)
    THEN GroupCount(selectors)
    ELSE ChainLength(node_hierarchy, node_id)

\* C21 as stated: for every non-empty path and target, the result is true
\* exactly when the last group tested against a node was satisfied by it.
C21_ResultIsLastTestedGroup ==
    (pc = "done" /\ selectors # <<>>) =>
        ((ret = "true") <=> SatisfiedAt(LastTested))

\* C21: for every non-empty path and target whose ancestor chain has a node
\* for every content group of the path, the result is true exactly when the
\* last group tested against a node was satisfied by it; a group before a
\* descendant combinator that failed at an earlier level does not change it.
C21_ResultIsLastTestedGroupWhenNodesSuffice ==
    (/\ pc = "done"
     /\ selectors # <<>>
     /\ GroupCount(selectors) <= ChainLength(node_hierarchy, node_id)) =>
        ((ret = "true") <=> SatisfiedAt(LastTested))

\* `.c .c .c` matched a node of class c whose parent has no class c and
\* whose grandparent has
C21_Witness ==
    /\ pc = "done"
    /\ selectors = <<Class("c"), Children, Class("c"), Children, Class("c")>>
    /\ node_id = 3
    /\ SatisfiedAt(1)
    /\ ~SatisfiedAt(2)
    /\ SatisfiedAt(3)
    /\ ret = "true"

\* C22: when a DirectChild marker stands between two adjacent groups A > B,
\* B being the i-th group from the right, and the ancestor paired with A
\* exists but does not satisfy A, the result is false whatever the groups
\* further left and the nodes further up are.
C22_DirectChildMismatchIsFalse ==
    (pc = "done" /\ selectors # <<>> /\ DirectMismatches # {}) => ret = "false"

\* `* .c > *` on a node whose parent has no class c: the grandparent
\* satisfies the group further left, and the result is false
C22_Witness ==
    /\ pc = "done"
    /\ selectors = <<Global, Children, Class("c"), DirectChildren, Global>>
    /\ node_id = 3
    /\ SatisfiedAt(1)
    /\ 2 \in DirectMismatches
    /\ SatisfiedAt(3)
    /\ ret = "false"

\* C23: the walk goes up one level for each content group, whatever the
\* combinator: the second group from the right is tested against the parent
\* of the target only, so a path A B of two groups gives the result of A on
\* the parent, and false when the target satisfies B, its parent does not
\* satisfy A and its grandparent does.
C23_OneLevelPerGroup ==
    (/\ pc = "done"
     /\ WellFormed(selectors)
     /\ GroupCount(selectors) = 2
     /\ ChainLength(node_hierarchy, node_id) >= 2) =>
        /\ (ret = "true") <=> SatisfiedAt(2)
        /\ (/\ TagFromRight(selectors, 1) = "Children"
            /\ ChainLength(node_hierarchy, node_id) >= 3
            /\ SatisfiedAt(1)
            /\ ~SatisfiedAt(2)
            /\ GroupSatisfied(RunFromRight(selectors, 2),
                              html_node_tree[Ancestor(node_hierarchy, node_id, 2)]))
               => ret = "false"

\* `.c *`: the parent of the target has no class c, its grandparent has
C23_Witness ==
    /\ pc = "done"
    /\ selectors = <<Class("c"), Children, Global>>
    /\ node_id = 3
    /\ SatisfiedAt(1)
    /\ ~SatisfiedAt(2)
    /\ "c" \in html_node_tree[1].node_data.classes
    /\ ret = "false"

\* C24: when the ancestor chain ends while groups remain, and no DirectChild
\* mismatch came before, the result is true exactly when the first group left
\* without a node is the single Universal selector, whatever the earlier
\* groups gave and whatever stands further left.
C24_MissingParentNeedsUniversal ==
    (/\ pc = "done"
     /\ selectors # <<>>
     /\ GroupCount(selectors) > ChainLength(node_hierarchy, node_id)
     /\ DirectMismatches = {}) =>
        ((ret = "true") <=>
            RunFromRight(selectors, ChainLength(node_hierarchy, node_id) + 1) = <<Global>>)

\* `.c * .c` matched a root that has no class c
C24_Witness ==
    /\ pc = "done"
    /\ node_id = 1
    /\ selectors = <<Class("c"), Children, Global, Children, Class("c")>>
    /\ ~SatisfiedAt(1)
    /\ ret = "true"

-----------------------------------------------------------------------------
(* Properties of the facts and of the output mapping, checked under         *)
(* SpecCascade.                                                             *)

\* the number of siblings that stand before a node under its parent
RECURSIVE EarlierSiblings(_)
EarlierSiblings(n) ==
    IF arena.node_layout[n].previous_sibling = None THEN 0
    ELSE 1 + EarlierSiblings(arena.node_layout[n].previous_sibling)

\* the node gets nothing from its parent: it is the root, or the list of its
\* parent has no inheritable declaration
InheritsNothing(n) ==
    \/ arena.node_layout[n].parent = None
    \/ \A i \in DOMAIN styled_nodes[arena.node_layout[n].parent] :
          ~CssDeclaration_is_inheritable(styled_nodes[arena.node_layout[n].parent][i])

\* C28: after a cascade pass over a tree whose root has at least one child,
\* the output mapping has an entry for every node of the tree, the root
\* included; a node that no rule matches and that inherits nothing has an
\* entry with an empty list.
C28_EveryNodeHasAnEntry ==
    cascade_pc = "done" =>
        /\ DOMAIN styled_nodes = DOMAIN arena.node_layout
        /\ \A n \in DOMAIN arena.node_layout :
              (InheritsNothing(n) /\ \A k \in DOMAIN css.rules : ~MatchesDirectly(css.rules[k], n))
                  => styled_nodes[n] = <<>>

\* a pass over a tree with an inner node below the root, in which a node has
\* a list and the root an empty one
C28_Witness ==
    /\ cascade_pc = "done"
    /\ css.rules # <<>>
    /\ styled_nodes[1] = <<>>
    /\ \E n \in DOMAIN arena.node_layout :
          /\ arena.node_layout[n].parent # None
          /\ arena.node_layout[n].first_child # None
          /\ n \in DOMAIN styled_nodes
    /\ \E n \in DOMAIN styled_nodes : styled_nodes[n] # <<>>

\* C29: once construct_html_cascade_tree has run on a tree whose root is an
\* internal node, the facts of every node hold its own type, classes and ids,
\* its position is 1 plus the number of its preceding siblings (1 for the
\* root), is_last_child is true exactly when it has no next sibling, and the
\* hovered, active and focused flags are false; so a single-group `:first`
\* matches exactly the first children and the root, `:last` exactly the nodes
\* without a next sibling, and `:nth-child(n)` exactly the n-th children.
C29_FactsOfEveryNode ==
    (cascade_pc = "loop" /\ visited = 0) =>
        \A n \in DOMAIN arena.node_layout :
            LET before == EarlierSiblings(n)
                facts == html_tree[n]
                Matches(s) ==
                    matches_html_element(<<s>>, n, arena.node_layout, html_tree) = "true"
            IN  /\ facts.node_data = arena.node_data[n]
                /\ facts.index_in_parent = 1 + before
                /\ facts.is_last_child <=> arena.node_layout[n].next_sibling = None
                /\ ~facts.is_hovered_over
                /\ ~facts.is_active
                /\ ~facts.is_focused
                /\ Matches(First) <=> before = 0
                /\ Matches(Last) <=> arena.node_layout[n].next_sibling = None
                /\ \A k \in 1..Len(arena.node_layout) :
                       Matches(NthChild(k)) <=> before = k - 1

\* the facts of a tree in which a leaf is the second and last child and its
\* earlier sibling is an inner node
C29_Witness ==
    /\ cascade_pc = "loop"
    /\ visited = 0
    /\ \E n, m \in DOMAIN arena.node_layout :
          /\ arena.node_layout[n].first_child = None
          /\ arena.node_layout[n].previous_sibling = m
          /\ arena.node_layout[m].first_child # None
          /\ html_tree[n].index_in_parent = 2
          /\ html_tree[n].is_last_child
          /\ html_tree[m].index_in_parent = 1
          /\ ~html_tree[m].is_last_child
          /\ arena.node_data[n] # arena.node_data[m]

=============================================================================
